---- MODULE Spec2Model ----
(***************************************************************************)
(* EvsDisplay (evs/evs_hal/hidl/EvsDisplay.cpp): the display object that   *)
(* arbitrates one display between a remote client and a forced shutdown.   *)
(* Two backends share the object: the compositor-proxy path                *)
(* (mDisplayProxy != nullptr) and the direct-layer path (IDisplay layer    *)
(* plus a pool of DISPLAY_BUFFER_NUM buffers).  Binder threads call the    *)
(* operations concurrently; every step below is one critical section of    *)
(* mLock or one external call made outside of it.                          *)
(***************************************************************************)
EXTENDS Integers, FiniteSets, Sequences, TLC

\* ---------------------------------------------------------------- bounds
MaxCalls == 3            \* operations started over one two-threaded behaviour
MaxSerialCalls == 8      \* operations started over one single-threaded behaviour

\* ------------------------------------------------------ program constants
DISPLAY_BUFFER_NUM == 3
MagicBufferId == 14448   \* 0x3870

\* EvsDisplayState
NOT_VISIBLE == 0
VISIBLE_ON_NEXT_FRAME == 1
VISIBLE == 2
DEAD == 3
NUM_STATES == 4

\* two binder threads call into the object
Threads == {"t1", "t2"}
Slots == 0..(DISPLAY_BUFFER_NUM - 1)
NullHandle == 0
NoLayer == -1
\* the one render target of the proxy path, distinct from the pool handles
ProxyHandle == DISPLAY_BUFFER_NUM + 1
\* every handle the allocators give this object
Handles == 1..ProxyHandle
\* what a read past the end of the pool array may yield besides a null pointer
WildHandle == DISPLAY_BUFFER_NUM + 2
\* layer numbers the layer service hands out
LayerIds == {0, 1}

\* values a caller may pass as EvsDisplayState (the enum is a plain uint32)
StateArgs == 0..NUM_STATES
\* buffer ids a caller may pass back: the pool slots, one past the pool, the
\* proxy path's magic number
BufferIdArgs == (0..DISPLAY_BUFFER_NUM) \cup {MagicBufferId}
\* slots the layer service may report: the pool slots and one past the pool
SlotAnswers == 0..DISPLAY_BUFFER_NUM

VARIABLES
    proxy,            \* mDisplayProxy != nullptr (fixed at construction)
    serial,           \* one client thread calls, each call after the last returned
    mRequestedState,
    mFrameBusy,
    mBuffer,          \* proxy path: [memHandle, bufferId]
    mBuffers,         \* direct path: slot -> handle or NullHandle
    mDisplay,         \* direct path: mDisplay != nullptr
    mLayer,
    glUp,             \* mGlWrapper initialised and not shut down
    showCalls,        \* showWindow calls issued to the compositor proxy
    hideCalls,        \* hideWindow calls issued to the compositor proxy
    serviceUp,        \* IDisplay::getService() answers
    layersHeld,       \* layers the layer service has handed out, not put back
    live,             \* buffer handles allocated and not yet released
    released,         \* per buffer handle, the functions that released it, in order
    pc, loc,          \* per thread: position and locals of the call in flight
    res,              \* per thread: the result of the call that just returned
    ncalls,           \* calls started
    outst,            \* buffer id -> descriptors handed out and not returned
    everIssued,       \* buffer ids some acquire has handed out
    shutdownDone,     \* a forceShutdown call has returned
    app,              \* the evs_app process: main, its globals, the signal handler
    isp               \* an ISPWrapper instance, its device and the call in progress

vars == <<app, isp, proxy, serial, mRequestedState, mFrameBusy, mBuffer, mBuffers, mDisplay, mLayer,
          glUp, showCalls, hideCalls, serviceUp, layersHeld, live, released, pc, loc, res,
          ncalls, outst, everIssued, shutdownDone>>

object == <<mRequestedState, mFrameBusy, mBuffer, mBuffers, mDisplay, mLayer>>
backend == <<glUp, showCalls, hideCalls, layersHeld, live, released>>
ghost == <<outst, everIssued, shutdownDone>>

\* ------------------------------------------------------------ construction
EmptyDesc == [id |-> 0, hnd |-> NullHandle]

\* locals of a call in flight, and what held when it was made
NoLoc == [op |-> "none", id |-> 0, display |-> FALSE, layer |-> NoLayer,
          slot |-> 0, state |-> NOT_VISIBLE, abuffer |-> NullHandle, i |-> 0,
          presented |-> FALSE, afterSD |-> FALSE]

\* a completed call: its operation, result and argument (for getTargetBuffer the
\* id of the descriptor passed to the callback), whether a returned handle was
\* non-null, the display state an accepted return acted on, whether it
\* presented a buffer, the handle of the descriptor getTargetBuffer passed to the
\* callback, whether the call made an external call with mLock held, the calls
\* the lazy initialisation of getTargetBuffer made to the GL wrapper and the
\* allocator
NoCall == [op |-> "none", rc |-> "none", id |-> 0, valid |-> FALSE,
           seen |-> NOT_VISIBLE, presented |-> FALSE, hnd |-> NullHandle,
           locked |-> FALSE, lazy |-> <<>>]

\* EvsDisplay::initialize: the pool is filled slot by slot and the loop stops at
\* the first allocation or reserved-region failure; `stored` slots were filled.
initialize(stored) ==
    [i \in Slots |-> IF i < stored THEN i + 1 ELSE NullHandle]

\* the members as both constructors find them, lines 91-111
Members(mode) ==
    /\ serial = mode
    /\ proxy \in BOOLEAN
    /\ mRequestedState = NOT_VISIBLE
    /\ mFrameBusy = FALSE
    /\ mBuffer = [memHandle |-> NullHandle, bufferId |-> 0]
    /\ released = [h \in Handles |-> <<>>]
    /\ mDisplay = FALSE
    /\ mLayer = NoLayer
    /\ glUp = FALSE
    /\ showCalls = 0
    /\ hideCalls = 0
    /\ serviceUp = FALSE
    /\ layersHeld = {}
    /\ res = [t \in Threads |-> NoCall]
    /\ ncalls = 0
    /\ outst = [b \in BufferIdArgs |-> 0]
    /\ everIssued = {}
    /\ shutdownDone = FALSE

\* the object as its constructor leaves it
Construct(mode) ==
    /\ Members(mode)
    /\ \E stored \in 0..DISPLAY_BUFFER_NUM :
          /\ (proxy => stored = 0)
          /\ mBuffers = initialize(stored)
          /\ live = {mBuffers[i] : i \in Slots} \ {NullHandle}
    /\ pc = [t \in Threads |-> "idle"]
    /\ loc = [t \in Threads |-> NoLoc]

\* evs_app.cpp, before main: the globals of lines 50-52 are null, no handler is
\* installed
NoApp == [pc |-> "register", hpc |-> "none", sig |-> "none", registered |-> FALSE,
          useVehicleHal |-> TRUE, pEvs |-> FALSE, pDisplay |-> FALSE,
          pStateController |-> FALSE, closed |-> FALSE]

\* white-balance modes of the camera metadata, as ISPWrapper.cpp names them
ANDROID_CONTROL_AWB_MODE_OFF == 0
ANDROID_CONTROL_AWB_MODE_AUTO == 1

\* ISPWrapper::ISPWrapper, lines 28-33, in front of a device that reports the
\* list `controls` of controls
NewIsp(controls) ==
    [m_fd |-> -1, m_ctrl_id |-> 0, m_awb_mode |-> ANDROID_CONTROL_AWB_MODE_AUTO,
     controls |-> controls, fds |-> {}, pc |-> "idle", qid |-> 0, qnext |-> FALSE,
     mode |-> 0, sent |-> <<>>, rc |-> "none"]

NoIsp == NewIsp(<<>>)

\* two binder threads call into the object concurrently
Init == Construct(FALSE) /\ app = NoApp /\ isp = NoIsp

\* a single client thread makes one call after the other
SerialInit == Construct(TRUE) /\ app = NoApp /\ isp = NoIsp

\* --------------------------------------------------------------- plumbing
CanStart(t) ==
    /\ pc[t] = "idle"
    /\ IF serial THEN t = "t1" /\ ncalls < MaxSerialCalls ELSE ncalls < MaxCalls

\* what a call learns about the protocol history at the moment it is made
Started(op, id) ==
    [NoLoc EXCEPT !.op = op, !.id = id, !.afterSD = shutdownDone]

Completed(op, rc, id, valid, seen, presented) ==
    [op |-> op, rc |-> rc, id |-> id, valid |-> valid, seen |-> seen,
     presented |-> presented, hnd |-> NullHandle, locked |-> FALSE,
     lazy |-> NoCall.lazy]

\* the call made an external call (compositor proxy, GL wrapper, allocator)
\* inside its critical section
UnderLock(call) == [call EXCEPT !.locked = TRUE]

\* the call went through the lazy initialisation of lines 343-389 and made
\* these calls there, with mLock held
Lazily(calls, call) == [UnderLock(call) EXCEPT !.lazy = calls]

\* getTargetBuffer passed the descriptor (id, hnd) to the callback
Issued(id, hnd) ==
    [Completed("getTargetBuffer", "BUFFER", id, TRUE, NoCall.seen, FALSE)
        EXCEPT !.hnd = hnd]

\* the call returns: its result is on its way to the caller
Return(t, call) ==
    /\ res' = [res EXCEPT ![t] = call]
    /\ pc' = [pc EXCEPT ![t] = "returned"]
    /\ loc' = [loc EXCEPT ![t] = NoLoc]

\* the caller has the result and the thread is free for the next call
Reply(t) ==
    /\ pc[t] = "returned"
    /\ pc' = [pc EXCEPT ![t] = "idle"]
    /\ res' = [res EXCEPT ![t] = NoCall]
    /\ UNCHANGED <<app, isp, proxy, serial, mRequestedState, mFrameBusy, mBuffer, mBuffers, mDisplay,
                   mLayer, glUp, showCalls, hideCalls, serviceUp, layersHeld, live, released,
                   loc, ncalls, outst, everIssued, shutdownDone>>

\* the allocator is given handle h back by the function `site`
Release(h, site) ==
    /\ live' = live \ {h}
    /\ released' = [released EXCEPT ![h] = Append(@, site)]

\* ghost bookkeeping of the descriptors in the client's hands
HandOut(id) ==
    /\ outst' = [outst EXCEPT ![id] = @ + 1]
    /\ everIssued' = everIssued \cup {id}

TakeBack(id) ==
    outst' = [outst EXCEPT ![id] = IF @ > 0 THEN @ - 1 ELSE 0]

\* ------------------------------------------------------- setDisplayState
\* the bound check of line 288 written with <= in place of <
RecognizedOffByOne(state) == state <= NUM_STATES

\* the bound check of line 288 written against DEAD in place of NUM_STATES
RecognizedBelowDead(state) == state < DEAD

\* line 288: the requested state is one this object recognises
Recognized(state) == state < NUM_STATES

\* the switch of lines 292-301 without its VISIBLE case
ShowsWindowNever(state) == FALSE

\* lines 295-297: the request for which showWindow is called
ShowsWindow(state) == state = VISIBLE

\* the switch of lines 292-301 hiding the window for every request but VISIBLE
HidesWindowUnlessVisible(state) == state # VISIBLE

\* lines 292-294: the request for which hideWindow is called
HidesWindow(state) == state = NOT_VISIBLE

\* lines 278-307, one critical section; showWindow and hideWindow reach the
\* compositor only when there is a proxy (lines 127, 135)
setDisplayState(t) ==
    /\ CanStart(t)
    /\ ncalls' = ncalls + 1
    /\ \E state \in StateArgs :
        IF mRequestedState = DEAD
        THEN /\ Return(t, Completed("setDisplayState", "OWNERSHIP_LOST", state, FALSE,
                                    NoCall.seen, FALSE))
             /\ UNCHANGED <<mRequestedState, showCalls, hideCalls>>
        ELSE IF ~Recognized(state)
        THEN /\ Return(t, Completed("setDisplayState", "INVALID_ARG", state, FALSE,
                                    NoCall.seen, FALSE))
             /\ UNCHANGED <<mRequestedState, showCalls, hideCalls>>
        ELSE /\ hideCalls' = IF HidesWindow(state) /\ proxy
                             THEN hideCalls + 1 ELSE hideCalls
             /\ showCalls' = IF ShowsWindow(state) /\ proxy
                             THEN showCalls + 1 ELSE showCalls
             /\ mRequestedState' = state
             /\ LET done == Completed("setDisplayState", "OK", state, FALSE,
                                      NoCall.seen, FALSE)
                IN  Return(t, IF proxy /\ (HidesWindow(state) \/ ShowsWindow(state))
                              THEN UnderLock(done) ELSE done)
    /\ UNCHANGED <<app, isp, proxy, serial, mFrameBusy, mBuffer, mBuffers, mDisplay, mLayer, glUp,
                   serviceUp, layersHeld, live, released, ghost>>

\* ------------------------------------------------------- getDisplayState
\* a getter that reports the window as shown as soon as the show is pending
CurrentStateAsShown ==
    IF mRequestedState = VISIBLE_ON_NEXT_FRAME THEN VISIBLE ELSE mRequestedState

\* line 321: the value getDisplayState returns
CurrentState == mRequestedState

\* lines 317-322
getDisplayState(t) ==
    /\ CanStart(t)
    /\ ncalls' = ncalls + 1
    /\ Return(t, Completed("getDisplayState", "OK", CurrentState, FALSE,
                           NoCall.seen, FALSE))
    /\ UNCHANGED <<app, isp, proxy, serial, object, backend, serviceUp, ghost>>

\* ------------------------------------------- getTargetBuffer, proxy path
\* the getTargetBuffer call in which _hidl_cb was never invoked
NoCallback ==
    Completed("getTargetBuffer", "NONE", EmptyDesc.id, FALSE, NoCall.seen, FALSE)

\* _hidl_cb({}) / _hidl_cb(hbuf) with the empty descriptor, once
Rejected ==
    Completed("getTargetBuffer", "EMPTY", EmptyDesc.id, FALSE, NoCall.seen, FALSE)

\* a failed allocation that leaves the handle it was asked for in the object
AfterFailedAllocationKept ==
    [memHandle |-> ProxyHandle, bufferId |-> MagicBufferId]

\* lines 355-384: what the object's descriptor holds when the allocation
\* failed; the id was written at line 360, the handle never
AfterFailedAllocation == [mBuffer EXCEPT !.bufferId = MagicBufferId]

\* lines 333-410, one critical section.  glOk: mGlWrapper.initialize succeeded;
\* alloc: the outcome of GraphicBufferAllocator::allocate.  Both are called
\* with mLock held.
getTargetBufferProxy(t) ==
    /\ proxy
    /\ CanStart(t)
    /\ ncalls' = ncalls + 1
    /\ \E glOk \in BOOLEAN, alloc \in {"ok", "error", "nohandle"} :
        LET first == mBuffer.memHandle = NullHandle
            fresh == [memHandle |-> ProxyHandle, bufferId |-> MagicBufferId]
        IN  IF mRequestedState = DEAD
            THEN /\ Return(t, Rejected)
                 /\ UNCHANGED <<mFrameBusy, mBuffer, glUp, live, released, outst, everIssued>>
            ELSE IF first /\ ~glOk
            THEN /\ Return(t, Lazily(<<"initialize">>, Rejected))
                 /\ UNCHANGED <<mFrameBusy, mBuffer, glUp, live, released, outst, everIssued>>
            ELSE IF first /\ alloc # "ok"
            THEN /\ mBuffer' = AfterFailedAllocation
                 /\ glUp' = FALSE
                 /\ Return(t, Lazily(<<"initialize", "allocate", "shutdown">>,
                                     Rejected))
                 /\ UNCHANGED <<mFrameBusy, live, released, outst, everIssued>>
            ELSE LET buf == IF first THEN fresh ELSE mBuffer
                     busy == IF first THEN FALSE ELSE mFrameBusy
                 IN  /\ mBuffer' = buf
                     /\ glUp' = (first \/ glUp)
                     /\ live' = IF first THEN live \cup {ProxyHandle} ELSE live
                     /\ released' = released
                     /\ IF busy
                        THEN /\ mFrameBusy' = busy
                             /\ Return(t, Rejected)
                             /\ UNCHANGED <<outst, everIssued>>
                        ELSE /\ mFrameBusy' = TRUE
                             /\ HandOut(buf.bufferId)
                             /\ LET given == Issued(buf.bufferId, buf.memHandle)
                                IN  Return(t, IF first
                                              THEN Lazily(<<"initialize", "allocate">>,
                                                          given)
                                              ELSE given)
    /\ UNCHANGED <<app, isp, proxy, serial, mRequestedState, mBuffers, mDisplay, mLayer, showCalls,
                   hideCalls, serviceUp, layersHeld, shutdownDone>>

\* ------------------------------ returnTargetBufferForDisplay, proxy path
\* lines 513-514, 573-576: a frame returned while the display waits for one
\* makes it visible
\* the advance of lines 513-514 left out
AdvanceNever(state) == state

AdvanceOnFrame(state) ==
    IF state = VISIBLE_ON_NEXT_FRAME THEN VISIBLE ELSE state

\* the id comparison of line 496 left out
RecognizesAnyId(id) == TRUE

\* line 496: the returned frame is the one this object issues
Recognizes(id) == id = mBuffer.bufferId

\* a return that keeps the frame outstanding when the texture update failed
BusyUnlessPresented(textureFailed) == textureFailed

\* line 505: mFrameBusy after an accepted return; it is cleared before the
\* state is looked at and before the texture update is tried
BusyAfterReturn(textureFailed) == FALSE

\* lines 488-539 and 589, one critical section after the handle check.
\* texOk: mGlWrapper.updateImageTexture succeeded.
returnTargetBufferProxy(t) ==
    /\ proxy
    /\ CanStart(t)
    /\ ncalls' = ncalls + 1
    /\ \E id \in BufferIdArgs, hnd \in {NullHandle, ProxyHandle}, texOk \in BOOLEAN :
        LET pre == mRequestedState
            after == AdvanceOnFrame(pre)
            refuse(rc) == Completed("returnTargetBuffer", rc, id, hnd # NullHandle,
                                    NoCall.seen, FALSE)
            done(rc, presented) == Completed("returnTargetBuffer", rc, id,
                                             hnd # NullHandle, pre, presented)
        IN  IF hnd = NullHandle \/ ~Recognizes(id)
            THEN /\ Return(t, refuse("INVALID_ARG"))
                 /\ UNCHANGED <<mRequestedState, mFrameBusy, showCalls, outst>>
            ELSE IF ~mFrameBusy
            THEN /\ Return(t, refuse("BUFFER_NOT_AVAILABLE"))
                 /\ UNCHANGED <<mRequestedState, mFrameBusy, showCalls, outst>>
            ELSE /\ mFrameBusy' = BusyAfterReturn(pre # DEAD /\ after = VISIBLE /\ ~texOk)
                 /\ TakeBack(id)
                 /\ IF pre = DEAD
                    THEN /\ Return(t, done("OWNERSHIP_LOST", FALSE))
                         /\ UNCHANGED <<mRequestedState, showCalls>>
                    ELSE /\ mRequestedState' = after
                         /\ showCalls' = IF pre = VISIBLE_ON_NEXT_FRAME
                                         THEN showCalls + 1 ELSE showCalls
                         /\ IF after # VISIBLE
                            THEN Return(t, done("OK", FALSE))
                            ELSE IF ~texOk
                            THEN Return(t, UnderLock(done("UNDERLYING_SERVICE_ERROR",
                                                          FALSE)))
                            ELSE Return(t, UnderLock(done("OK", TRUE)))
    /\ UNCHANGED <<app, isp, proxy, serial, mBuffer, mBuffers, mDisplay, mLayer, glUp, hideCalls,
                   serviceUp, layersHeld, live, released, everIssued, shutdownDone>>

\* ------------------------------------------------ forceShutdown, proxy path
\* lines 194-217, one critical section
forceShutdownProxy(t) ==
    /\ proxy
    /\ CanStart(t)
    /\ ncalls' = ncalls + 1
    /\ LET held == mBuffer.memHandle # NullHandle
       IN  /\ mBuffer' = [mBuffer EXCEPT !.memHandle = NullHandle]
           /\ IF held THEN Release(mBuffer.memHandle, "forceShutdown")
                      ELSE UNCHANGED <<live, released>>
           /\ hideCalls' = IF held THEN hideCalls + 1 ELSE hideCalls
           /\ glUp' = IF held THEN FALSE ELSE glUp
           /\ mRequestedState' = DEAD
           /\ shutdownDone' = TRUE
           /\ LET done == Completed("forceShutdown", "OK", 0, FALSE, NoCall.seen,
                                    FALSE)
              IN  Return(t, IF held THEN UnderLock(done) ELSE done)
    /\ UNCHANGED <<app, isp, proxy, serial, mFrameBusy, mBuffers, mDisplay, mLayer, showCalls,
                   serviceUp, layersHeld, outst, everIssued>>

\* =========================================================== direct path
Goto(t, label, l) ==
    /\ pc' = [pc EXCEPT ![t] = label]
    /\ loc' = [loc EXCEPT ![t] = l]
    /\ UNCHANGED res

\* the statement that follows `getDisplay()` in each caller
AfterGetDisplay(op) ==
    CASE op = "getTargetBuffer" -> "gt_read"
      [] op = "returnTargetBuffer" -> "rt_read"
      [] op = "forceShutdown" -> "fs_layer"

\* the lower-level display service comes up (it may be late during boot)
ServiceStart ==
    /\ ~proxy
    /\ ~serviceUp
    /\ serviceUp' = TRUE
    /\ UNCHANGED <<app, isp, proxy, serial, object, backend, pc, loc, res, ncalls, ghost>>

\* ------------------------------------------------------------ getDisplay
\* line 55, read without the lock
getDisplayCheck(t) ==
    /\ pc[t] = "gd_check"
    /\ Goto(t, IF mDisplay THEN AfterGetDisplay(loc[t].op) ELSE "gd_service", loc[t])
    /\ UNCHANGED <<app, isp, proxy, serial, object, backend, serviceUp, ncalls, ghost>>

\* lines 59-79: the loop leaves only once getService() answers; getLayer then
\* yields a layer or an error
getDisplayService(t) ==
    /\ pc[t] = "gd_service"
    /\ serviceUp
    /\ \E answer \in (LayerIds \ layersHeld) \cup {NoLayer} :
        IF answer = NoLayer
        THEN /\ Goto(t, AfterGetDisplay(loc[t].op), loc[t])
             /\ UNCHANGED layersHeld
        ELSE /\ layersHeld' = layersHeld \cup {answer}
             /\ Goto(t, "gd_commit", [loc[t] EXCEPT !.layer = answer])
    /\ UNCHANGED <<app, isp, proxy, serial, object, glUp, showCalls, hideCalls, live, released, serviceUp,
                   ncalls, ghost>>

\* lines 81-88
getDisplayCommit(t) ==
    /\ pc[t] = "gd_commit"
    /\ mDisplay' = TRUE
    /\ mLayer' = loc[t].layer
    /\ Goto(t, AfterGetDisplay(loc[t].op), [loc[t] EXCEPT !.layer = NoLayer])
    /\ UNCHANGED <<app, isp, proxy, serial, mRequestedState, mFrameBusy, mBuffer, mBuffers, backend,
                   serviceUp, ncalls, ghost>>

\* ------------------------------------------ getTargetBuffer, direct path
\* lines 412-425
getTargetBufferDirect(t) ==
    /\ ~proxy
    /\ CanStart(t)
    /\ ncalls' = ncalls + 1
    /\ IF mRequestedState = DEAD
       THEN Return(t, Rejected)
       ELSE Goto(t, "gd_check", Started("getTargetBuffer", 0))
    /\ UNCHANGED <<app, isp, proxy, serial, object, backend, serviceUp, ghost>>

\* lines 426-447: the object's display and layer are read under the lock; the
\* layer service then names a slot, or fails
getTargetBufferSlot(t) ==
    /\ pc[t] = "gt_read"
    /\ \E answer \in SlotAnswers \cup {-1} :
        IF ~mDisplay \/ answer = -1
        THEN Return(t, Rejected)
        ELSE Goto(t, "gt_buffer", [loc[t] EXCEPT !.display = mDisplay,
                                                 !.layer = mLayer,
                                                 !.slot = answer])
    /\ UNCHANGED <<app, isp, proxy, serial, object, backend, serviceUp, ncalls, ghost>>

\* the lookup of line 452 reading the entry after the one asked for
PoolEntryShifted(slot) == {mBuffers[(slot + 1) % DISPLAY_BUFFER_NUM]}

\* line 452: mBuffers[slot]; past the end of the array the read yields whatever
\* lies there
PoolEntry(slot) ==
    IF slot \in Slots THEN {mBuffers[slot]} ELSE {NullHandle, WildHandle}

\* lines 449-458
getTargetBufferLookup(t) ==
    /\ pc[t] = "gt_buffer"
    /\ \E buffer \in PoolEntry(loc[t].slot) :
        IF buffer = NullHandle
        THEN Return(t, Rejected)
        ELSE Goto(t, "gt_callback", [loc[t] EXCEPT !.abuffer = buffer])
    /\ UNCHANGED <<app, isp, proxy, serial, object, backend, serviceUp, ncalls, ghost>>

\* lines 460-475
getTargetBufferCallback(t) ==
    /\ pc[t] = "gt_callback"
    /\ HandOut(loc[t].slot)
    /\ Return(t, Issued(loc[t].slot, loc[t].abuffer))
    /\ UNCHANGED <<app, isp, proxy, serial, object, backend, serviceUp, ncalls, shutdownDone>>

\* ----------------------------- returnTargetBufferForDisplay, direct path
\* line 541: the id names a slot of the pool
InPool(id) == id < DISPLAY_BUFFER_NUM

\* lines 488-492, 541-547
returnTargetBufferDirect(t) ==
    /\ ~proxy
    /\ CanStart(t)
    /\ ncalls' = ncalls + 1
    /\ \E id \in BufferIdArgs, hnd \in {NullHandle, WildHandle} :
        IF hnd = NullHandle \/ ~InPool(id)
        THEN Return(t, Completed("returnTargetBuffer", "INVALID_ARG", id,
                                 hnd # NullHandle, NoCall.seen, FALSE))
        ELSE Goto(t, "gd_check", Started("returnTargetBuffer", id))
    /\ UNCHANGED <<app, isp, proxy, serial, object, backend, serviceUp, ghost>>

\* lines 550-561
returnTargetBufferRead(t) ==
    /\ pc[t] = "rt_read"
    /\ LET l == [loc[t] EXCEPT !.state = mRequestedState,
                               !.abuffer = mBuffers[loc[t].id],
                               !.display = mDisplay,
                               !.layer = mLayer]
       IN  IF l.abuffer = NullHandle
           THEN Return(t, Completed("returnTargetBuffer", "INVALID_ARG", l.id, TRUE,
                                    NoCall.seen, FALSE))
           ELSE Goto(t, "rt_present", l)
    /\ UNCHANGED <<app, isp, proxy, serial, object, backend, serviceUp, ncalls, ghost>>

\* lines 563-570 and, when no advance is due, 579-589
returnTargetBufferPresent(t) ==
    /\ pc[t] = "rt_present"
    /\ LET l == [loc[t] EXCEPT !.presented = loc[t].display]
       IN  IF l.state = DEAD
           THEN /\ Return(t, Completed("returnTargetBuffer", "OWNERSHIP_LOST", l.id,
                                       TRUE, l.state, l.presented))
                /\ TakeBack(l.id)
           ELSE IF l.state = VISIBLE_ON_NEXT_FRAME
           THEN /\ Goto(t, "rt_advance", l)
                /\ UNCHANGED outst
           ELSE /\ Return(t, Completed("returnTargetBuffer", "OK", l.id, TRUE, l.state,
                                       l.presented))
                /\ TakeBack(l.id)
    /\ UNCHANGED <<app, isp, proxy, serial, object, backend, serviceUp, ncalls, everIssued, shutdownDone>>

\* lines 573-577, 589: the advance is written from the state read earlier
returnTargetBufferAdvance(t) ==
    /\ pc[t] = "rt_advance"
    /\ mRequestedState' = AdvanceOnFrame(loc[t].state)
    /\ TakeBack(loc[t].id)
    /\ Return(t, Completed("returnTargetBuffer", "OK", loc[t].id, TRUE,
                           loc[t].state, loc[t].presented))
    /\ UNCHANGED <<app, isp, proxy, serial, mFrameBusy, mBuffer, mBuffers, mDisplay, mLayer, backend,
                   serviceUp, ncalls, everIssued, shutdownDone>>

\* ---------------------------------------------- forceShutdown, direct path
\* lines 218-220
forceShutdownDirect(t) ==
    /\ ~proxy
    /\ CanStart(t)
    /\ ncalls' = ncalls + 1
    /\ Goto(t, "gd_check", Started("forceShutdown", 0))
    /\ UNCHANGED <<app, isp, proxy, serial, object, backend, serviceUp, ghost>>

\* lines 221-226
forceShutdownLayer(t) ==
    /\ pc[t] = "fs_layer"
    /\ mLayer' = NoLayer
    /\ Goto(t, "fs_put", [loc[t] EXCEPT !.layer = mLayer, !.display = mDisplay])
    /\ UNCHANGED <<app, isp, proxy, serial, mRequestedState, mFrameBusy, mBuffer, mBuffers, mDisplay,
                   backend, serviceUp, ncalls, ghost>>

\* lines 228-230
forceShutdownPut(t) ==
    /\ pc[t] = "fs_put"
    /\ layersHeld' = IF loc[t].display THEN layersHeld \ {loc[t].layer} ELSE layersHeld
    /\ Goto(t, "fs_release", [loc[t] EXCEPT !.i = 0])
    /\ UNCHANGED <<app, isp, proxy, serial, object, glUp, showCalls, hideCalls, live, released, serviceUp,
                   ncalls, ghost>>

\* the loop of line 237 stopping one slot short of the pool
ReleaseEndShort == DISPLAY_BUFFER_NUM - 1

\* line 237: the release loop runs over i < DISPLAY_BUFFER_NUM
ReleaseEnd == DISPLAY_BUFFER_NUM

\* lines 237-248, one iteration
forceShutdownRelease(t) ==
    /\ pc[t] = "fs_release"
    /\ loc[t].i < ReleaseEnd
    /\ mBuffers' = [mBuffers EXCEPT ![loc[t].i] = NullHandle]
    /\ IF mBuffers[loc[t].i] # NullHandle
       THEN Release(mBuffers[loc[t].i], "forceShutdown")
       ELSE UNCHANGED <<live, released>>
    /\ Goto(t, "fs_release", [loc[t] EXCEPT !.i = @ + 1])
    /\ UNCHANGED <<app, isp, proxy, serial, mRequestedState, mFrameBusy, mBuffer, mDisplay, mLayer,
                   glUp, showCalls, hideCalls, layersHeld, serviceUp, ncalls, ghost>>

\* lines 250-254
forceShutdownDead(t) ==
    /\ pc[t] = "fs_release"
    /\ loc[t].i = ReleaseEnd
    /\ mRequestedState' = DEAD
    /\ shutdownDone' = TRUE
    /\ Return(t, Completed("forceShutdown", "OK", 0, FALSE, NoCall.seen, FALSE))
    /\ UNCHANGED <<app, isp, proxy, serial, mFrameBusy, mBuffer, mBuffers, mDisplay, mLayer, backend,
                   serviceUp, ncalls, outst, everIssued>>

Next ==
    \/ ServiceStart
    \/ \E t \in Threads :
        \/ Reply(t)
        \/ setDisplayState(t)
        \/ getDisplayState(t)
        \/ getTargetBufferProxy(t)
        \/ returnTargetBufferProxy(t)
        \/ forceShutdownProxy(t)
        \/ getDisplayCheck(t)
        \/ getDisplayService(t)
        \/ getDisplayCommit(t)
        \/ getTargetBufferDirect(t)
        \/ getTargetBufferSlot(t)
        \/ getTargetBufferLookup(t)
        \/ getTargetBufferCallback(t)
        \/ returnTargetBufferDirect(t)
        \/ returnTargetBufferRead(t)
        \/ returnTargetBufferPresent(t)
        \/ returnTargetBufferAdvance(t)
        \/ forceShutdownDirect(t)
        \/ forceShutdownLayer(t)
        \/ forceShutdownPut(t)
        \/ forceShutdownRelease(t)
        \/ forceShutdownDead(t)

Spec == Init /\ [][Next]_vars

SerialSpec == SerialInit /\ [][Next]_vars

\* a step of a call: binder threads keep running, the polling loop of
\* getDisplay included, while nothing obliges the display service to come up
ClientStep == Next /\ UNCHANGED serviceUp

FairSpec == Init /\ [][Next]_vars /\ WF_vars(ClientStep)

\* ------------------------------------------------- initialize, step by step
\* what the allocator and the reserved-region lookup may do in one iteration
Outcomes == {"stored", "allocate_failed", "region_failed"}

\* an initialize that keeps the buffer whose reserved region it could not get
ReleasedAtOnceNever(outcome) == FALSE

\* lines 169-173: the buffer of this iteration is given back before initialize
\* returns
ReleasedAtOnce(outcome) == outcome = "region_failed"

\* the constructor is over: binder threads may call into the object
Constructed == \A t \in Threads : pc[t] # "ctor"

\* lines 157-182, one iteration of the loop run by the constructor (line 115);
\* the allocator hands out handle i + 1 in iteration i
initializeIteration ==
    /\ ~Constructed
    /\ LET i == loc["t1"].i
           buffer == i + 1
           over == [t \in Threads |-> "idle"]
       IN  \E outcome \in Outcomes :
             /\ mBuffers' = IF outcome = "stored"
                             THEN [mBuffers EXCEPT ![i] = buffer] ELSE mBuffers
             /\ IF outcome = "allocate_failed"
                THEN UNCHANGED <<live, released>>
                ELSE IF ReleasedAtOnce(outcome)
                THEN released' = [released EXCEPT ![buffer] = Append(@, "initialize")]
                     /\ UNCHANGED live
                ELSE live' = live \cup {buffer} /\ UNCHANGED released
             /\ IF outcome = "stored" /\ i + 1 < DISPLAY_BUFFER_NUM
                THEN loc' = [loc EXCEPT !["t1"].i = i + 1] /\ UNCHANGED pc
                ELSE loc' = [loc EXCEPT !["t1"] = NoLoc] /\ pc' = over
    /\ UNCHANGED <<app, isp, proxy, serial, mRequestedState, mFrameBusy, mBuffer, mDisplay,
                   mLayer, glUp, showCalls, hideCalls, layersHeld, serviceUp, res,
                   ncalls, ghost>>

\* the direct-layer constructor is about to call initialize (line 115); the
\* proxy constructor (lines 91-100) allocates nothing
PoolInit ==
    /\ Members(FALSE)
    /\ mBuffers = [i \in Slots |-> NullHandle]
    /\ live = {}
    /\ pc = [t \in Threads |-> IF proxy THEN "idle" ELSE "ctor"]
    /\ loc = [t \in Threads |-> NoLoc]
    /\ app = NoApp
    /\ isp = NoIsp

PoolNext == initializeIteration \/ Next

PoolSpec == PoolInit /\ [][PoolNext]_vars

\* ------------------------------------------------------------------ evs_app
\* every variable of the display object: the application model leaves it alone
display == <<proxy, serial, mRequestedState, mFrameBusy, mBuffer, mBuffers, mDisplay, mLayer,
             glUp, showCalls, hideCalls, serviceUp, layersHeld, live, released, pc, loc, res,
             ncalls, outst, everIssued, shutdownDone>>

\* the signals registerSigHandler installs the handler for
Signals == {"SIGABRT", "SIGTERM", "SIGINT"}

\* main runs while no handler is on its stack and the process has not ended
MainAt(label) == app.pc = label /\ app.hpc = "none"

MainGoto(label) == app' = [app EXCEPT !.pc = label]

\* main, line 108
registerSigHandler ==
    /\ MainAt("register")
    /\ app' = [app EXCEPT !.pc = "options", !.registered = TRUE]
    /\ UNCHANGED <<isp, display>>

\* main, lines 110-134: the command line decides useVehicleHal
parseOptions ==
    /\ MainAt("options")
    /\ \E hal \in BOOLEAN :
          app' = [app EXCEPT !.pc = "config", !.useVehicleHal = hal]
    /\ UNCHANGED <<isp, display>>

\* main, lines 136-147: a configuration that fails to load ends the process
loadConfig ==
    /\ MainAt("config")
    /\ \E ok \in BOOLEAN : MainGoto(IF ok THEN "getService" ELSE "returned")
    /\ UNCHANGED <<isp, display>>

\* main, lines 158-165
getService ==
    /\ MainAt("getService")
    /\ \E ok \in BOOLEAN :
          app' = [app EXCEPT !.pc = IF ok THEN "openDisplay" ELSE "returned",
                             !.pEvs = ok]
    /\ UNCHANGED <<isp, display>>

\* main, lines 167-174
openDisplay ==
    /\ MainAt("openDisplay")
    /\ \E ok \in BOOLEAN :
          app' = [app EXCEPT !.pc = IF ok THEN "vhal" ELSE "returned",
                             !.pDisplay = ok]
    /\ UNCHANGED <<isp, display>>

\* main, lines 176-198: the service lookup and the GEAR_SELECTION subscription
\* end the process when they fail
connectVhal ==
    /\ MainAt("vhal")
    /\ \E ok \in BOOLEAN :
          MainGoto(IF app.useVehicleHal /\ ~ok THEN "returned" ELSE "construct")
    /\ UNCHANGED <<isp, display>>

\* main, lines 200-202
constructController ==
    /\ MainAt("construct")
    /\ app' = [app EXCEPT !.pc = "startLoop", !.pStateController = TRUE]
    /\ UNCHANGED <<isp, display>>

\* main, lines 203-206
startUpdateLoop ==
    /\ MainAt("startLoop")
    /\ \E ok \in BOOLEAN : MainGoto(IF ok THEN "run" ELSE "returned")
    /\ UNCHANGED <<isp, display>>

\* main, lines 208-216: the listener returns and main with it
runListener ==
    /\ MainAt("run")
    /\ MainGoto("returned")
    /\ UNCHANGED <<isp, display>>

\* a signal the handler is installed for is delivered while the process lives
Signal ==
    /\ app.registered
    /\ app.hpc = "none"
    /\ app.pc # "returned"
    /\ \E sig \in Signals : app' = [app EXCEPT !.hpc = "check", !.sig = sig]
    /\ UNCHANGED <<isp, display>>

\* where a call through pStateController leads: a null pointer is undefined
\* behaviour, the process faults or carries on
Through(next) == IF app.pStateController THEN {next} ELSE {next, "fault"}

\* sigHandler, line 56
sigHandlerCheck ==
    /\ app.hpc = "check"
    /\ app' = [app EXCEPT !.hpc = IF app.pEvs THEN "post" ELSE "stop"]
    /\ UNCHANGED <<isp, display>>

\* sigHandler, line 58
sigHandlerPost ==
    /\ app.hpc = "post"
    /\ \E to \in Through("terminate") : app' = [app EXCEPT !.hpc = to]
    /\ UNCHANGED <<isp, display>>

\* sigHandler, line 59
sigHandlerTerminate ==
    /\ app.hpc = "terminate"
    /\ \E to \in Through("close") : app' = [app EXCEPT !.hpc = to]
    /\ UNCHANGED <<isp, display>>

\* sigHandler, line 60
sigHandlerClose ==
    /\ app.hpc = "close"
    /\ app' = [app EXCEPT !.hpc = "stop", !.closed = app.pDisplay]
    /\ UNCHANGED <<isp, display>>

\* sigHandler, lines 63-64
sigHandlerExit ==
    /\ app.hpc = "stop"
    /\ app' = [app EXCEPT !.hpc = "exited"]
    /\ UNCHANGED <<isp, display>>

\* the application next to a display of the direct-layer backend
AppInit == Construct(TRUE) /\ ~proxy /\ app = NoApp /\ isp = NoIsp

AppNext ==
    \/ registerSigHandler
    \/ parseOptions
    \/ loadConfig
    \/ getService
    \/ openDisplay
    \/ connectVhal
    \/ constructController
    \/ startUpdateLoop
    \/ runListener
    \/ Signal
    \/ sigHandlerCheck
    \/ sigHandlerPost
    \/ sigHandlerTerminate
    \/ sigHandlerClose
    \/ sigHandlerExit

AppSpec == AppInit /\ [][AppNext]_vars


\* --------------------------------------------------------------- ISPWrapper
\* the device reports at most this many controls, and at most this many
\* descriptors are opened on it
MaxControls == 2
MaxOpens == 2

\* g_strWBList has one entry per white-balance mode, OFF to SHADE
WBListSize == 9

\* a control of the device: disabled, the one named viv_ext_ctrl, or another
ControlKinds == {"disabled", "viv", "other"}

RECURSIVE ListsUpTo(_)
ListsUpTo(n) ==
    IF n = 0 THEN {<<>>}
    ELSE LET shorter == ListsUpTo(n - 1)
         IN  shorter \cup {Append(l, k) : l \in {x \in shorter : Len(x) = n - 1},
                                          k \in ControlKinds}

ControlLists == ListsUpTo(MaxControls)

\* the feature strings of ISPWrapper.h, and the null pointer in their place
NULL == [feature |-> "none", mode |-> -1]

STR_AWB_DISABLE == [feature |-> "awb", mode |-> -1]

g_strWBList(mode) == [feature |-> "wb", mode |-> mode]

IspReturn(rc) == [isp EXCEPT !.pc = "idle", !.rc = rc]

\* init, lines 43-61: the argument and state tests, open, and the start of the
\* enumeration; descriptors are numbered from 3
ispInit ==
    /\ isp.pc = "idle"
    /\ \E devPath \in {"NULL", "/dev/video"}, opened \in BOOLEAN :
        IF devPath = "NULL"
        THEN isp' = IspReturn("BAD_VALUE")
        ELSE IF isp.m_ctrl_id > 0
        THEN isp' = IspReturn("OK")
        ELSE /\ Cardinality(isp.fds) < MaxOpens
             /\ IF ~opened
                THEN isp' = IspReturn("BAD_VALUE")
                ELSE LET fd == 3 + Cardinality(isp.fds)
                     IN  isp' = [isp EXCEPT !.m_fd = fd, !.fds = @ \cup {fd},
                                            !.pc = "init_query", !.qid = 0,
                                            !.qnext = TRUE]
    /\ UNCHANGED <<app, display>>

\* init, line 63: one VIDIOC_QUERYCTRL.  With V4L2_CTRL_FLAG_NEXT_CTRL set the
\* driver answers with the control after queryctrl.id, without it with the
\* control queryctrl.id itself; the answer overwrites queryctrl.id and its
\* flags; past the last control the ioctl fails and the loop ends (line 77)
ispQuery ==
    /\ isp.pc = "init_query"
    /\ LET asked == IF isp.qnext THEN isp.qid + 1 ELSE isp.qid
       IN  IF asked > Len(isp.controls)
           THEN isp' = IspReturn(IF isp.m_ctrl_id > 0 THEN "OK" ELSE "NO_INIT")
           ELSE isp' = [isp EXCEPT !.qid = asked, !.qnext = FALSE,
                                   !.pc = "init_answer"]
    /\ UNCHANGED <<app, display>>

\* init, lines 64-74: the loop body on the control the driver answered with
ispAnswer ==
    /\ isp.pc = "init_answer"
    /\ IF isp.controls[isp.qid] = "disabled"
       THEN isp' = [isp EXCEPT !.pc = "init_query"]
       ELSE IF isp.controls[isp.qid] = "viv"
       THEN isp' = [IspReturn("OK") EXCEPT !.m_ctrl_id = isp.qid]
       ELSE isp' = [isp EXCEPT !.qnext = TRUE, !.pc = "init_query"]
    /\ UNCHANGED <<app, display>>

\* setFeature, lines 80-112: its return value when the ioctl would answer `ok`
setFeature(value, ok) ==
    IF value = NULL THEN "BAD_VALUE"
    ELSE IF isp.m_fd <= 0 \/ isp.m_ctrl_id = 0 THEN "NO_INIT"
    ELSE IF ok THEN "OK" ELSE "FAILED"

\* setFeature, lines 86-105: the commands that have reached the driver once
\* setFeature(value) has returned rc
Sent(value, rc) ==
    IF rc \in {"OK", "FAILED"}
    THEN Append(isp.sent, [value |-> value, ok |-> rc = "OK"])
    ELSE isp.sent

\* a processAWB that never disables auto white balance first
DisablesFirstNever(from, mode) == FALSE

\* lines 132-134: the switch from auto to a manual mode
DisablesFirst(from, mode) ==
    /\ from = ANDROID_CONTROL_AWB_MODE_AUTO
    /\ mode # ANDROID_CONTROL_AWB_MODE_AUTO
    /\ mode # ANDROID_CONTROL_AWB_MODE_OFF

\* processAWB, lines 114-134
processAWB ==
    /\ isp.pc = "idle"
    /\ \E mode \in 0..WBListSize :
        LET call == [isp EXCEPT !.mode = mode, !.sent = <<>>, !.rc = "none"]
        IN  IF mode >= WBListSize
            THEN isp' = [call EXCEPT !.rc = "BAD_VALUE"]
            ELSE IF mode = isp.m_awb_mode
            THEN isp' = [call EXCEPT !.rc = "OK"]
            ELSE isp' = [call EXCEPT !.pc = IF DisablesFirst(isp.m_awb_mode, mode)
                                            THEN "awb_disable" ELSE "awb_set"]
    /\ UNCHANGED <<app, display>>

\* processAWB, lines 135-141
processAWBDisable ==
    /\ isp.pc = "awb_disable"
    /\ \E ok \in BOOLEAN :
        LET ret == setFeature(STR_AWB_DISABLE, ok)
        IN  isp' = [isp EXCEPT !.sent = Sent(STR_AWB_DISABLE, ret),
                               !.pc = IF ret = "OK" THEN "awb_set" ELSE "idle",
                               !.rc = IF ret = "OK" THEN "none" ELSE "BAD_VALUE"]
    /\ UNCHANGED <<app, display>>

\* processAWB, lines 143-153
processAWBSet ==
    /\ isp.pc = "awb_set"
    /\ \E ok \in BOOLEAN :
        LET value == g_strWBList(isp.mode)
            ret == setFeature(value, ok)
        IN  isp' = [isp EXCEPT !.sent = Sent(value, ret),
                               !.pc = "idle",
                               !.rc = IF ret = "OK" THEN "OK" ELSE "BAD_VALUE",
                               !.m_awb_mode = IF ret = "OK" THEN isp.mode ELSE @]
    /\ UNCHANGED <<app, display>>

\* ~ISPWrapper, lines 35-39
ispDestroy ==
    /\ isp.pc = "idle"
    /\ isp' = [isp EXCEPT !.pc = "destroyed",
                          !.fds = IF isp.m_fd > 0 THEN @ \ {isp.m_fd} ELSE @]
    /\ UNCHANGED <<app, display>>

\* a wrapper in front of any device of at most MaxControls controls
IspInit ==
    /\ Construct(TRUE)
    /\ ~proxy
    /\ mBuffers = initialize(DISPLAY_BUFFER_NUM)
    /\ app = NoApp
    /\ isp \in {NewIsp(controls) : controls \in ControlLists}

IspNext ==
    \/ ispInit
    \/ ispQuery
    \/ ispAnswer
    \/ processAWB
    \/ processAWBDisable
    \/ processAWBSet
    \/ ispDestroy

IspSpec == IspInit /\ [][IspNext]_vars

\* init is straight-line code around its loop: a call that is in the loop
\* keeps executing
IspFairSpec == IspInit /\ [][IspNext]_vars /\ WF_vars(ispQuery) /\ WF_vars(ispAnswer)

\* ================================================================ claims
\* thread t's call returns in this step, and it is a call of `op`
Returns(t, op) ==
    /\ pc[t] # "returned"
    /\ pc'[t] = "returned"
    /\ res'[t].op = op

\* the call that returns in this step was made after a forceShutdown had returned
MadeAfterShutdown(t) ==
    IF pc[t] = "idle" THEN shutdownDone ELSE loc[t].afterSD

RECURSIVE Sum(_, _)
Sum(f, S) ==
    IF S = {} THEN 0
    ELSE LET x == CHOOSE y \in S : TRUE IN f[x] + Sum(f, S \ {x})

\* ids under which the object hands out its own buffers
OwnIds == Slots \cup {MagicBufferId}

\* descriptors of the object's buffers handed out by getTargetBuffer and not
\* yet taken back
Outstanding == Sum(outst, OwnIds)

\* results with which returnTargetBufferForDisplay takes a buffer back
Accepted == {"OK", "OWNERSHIP_LOST", "UNDERLYING_SERVICE_ERROR"}

ValidStates == {NOT_VISIBLE, VISIBLE_ON_NEXT_FRAME, VISIBLE, DEAD}

\* C1: in either backend at most one buffer descriptor is outstanding at any
\* time (an acquire made while one is outstanding is refused).
C1_AtMostOneOutstanding == Outstanding <= 1

\* C2: once forceShutdown has returned, every later setDisplayState yields
\* OWNERSHIP_LOST, every later getTargetBuffer is refused with the empty
\* descriptor, getDisplayState reports DEAD, and every later
\* returnTargetBufferForDisplay yields OWNERSHIP_LOST; the return is taken in the
\* case most favourable to the claim, a non-null handle with a buffer id the
\* object has issued.
C2_RefusedAfterShutdown ==
    [][\A t \in Threads :
        (pc[t] # "returned" /\ pc'[t] = "returned" /\ MadeAfterShutdown(t)) =>
            /\ res'[t].op = "setDisplayState" => res'[t].rc = "OWNERSHIP_LOST"
            /\ (/\ res'[t].op = "returnTargetBuffer"
                /\ res'[t].valid
                /\ res'[t].id \in everIssued \cap OwnIds) =>
                    res'[t].rc = "OWNERSHIP_LOST"
            /\ res'[t].op = "getTargetBuffer" => res'[t].rc = "EMPTY"
            /\ res'[t].op = "getDisplayState" => res'[t].id = DEAD]_vars

\* C3: DEAD is absorbing: once forceShutdown has made the display state DEAD,
\* no step of any call, under any interleaving, changes it.
C3_DeadIsAbsorbing ==
    [][(shutdownDone /\ mRequestedState = DEAD) => mRequestedState' = DEAD]_vars

\* C4: while one descriptor is outstanding, a return that carries a different
\* buffer id is rejected.
C4_OnlyTheIssuedDescriptor ==
    [][\A t \in Threads :
        (/\ Returns(t, "returnTargetBuffer")
         /\ Outstanding = 1
         /\ outst[res'[t].id] = 0) => res'[t].rc \notin Accepted]_vars

\* C5: a return whose buffer id no acquire has ever issued yields INVALID_ARG;
\* stated for the direct-layer backend, where the id is a pool slot never
\* handed out or lies outside the pool.
C5_UnissuedIdIsInvalid ==
    [][\A t \in Threads :
        (/\ Returns(t, "returnTargetBuffer")
         /\ ~proxy
         /\ res'[t].id \notin everIssued) => res'[t].rc = "INVALID_ARG"]_vars

\* an outstanding descriptor comes back in this step and is taken for display
FrameReturned(t) ==
    /\ Returns(t, "returnTargetBuffer")
    /\ res'[t].rc \in {"OK", "UNDERLYING_SERVICE_ERROR"}
    /\ res'[t].id \in OwnIds
    /\ outst[res'[t].id] > 0

\* C6 as stated: the return that closes an acquire + return cycle begun in
\* VISIBLE_ON_NEXT_FRAME leaves the state VISIBLE and issues exactly one show
\* call; a return that finds the state VISIBLE already issues none.
C6_ExactlyOneShow ==
    [][\A t \in Threads :
        FrameReturned(t) =>
            /\ res'[t].seen = VISIBLE_ON_NEXT_FRAME =>
                  (mRequestedState' = VISIBLE /\ showCalls' = showCalls + 1)
            /\ res'[t].seen = VISIBLE => showCalls' = showCalls]_vars

\* C6 as amended: the return that closes an acquire + return cycle begun in
\* VISIBLE_ON_NEXT_FRAME leaves the state VISIBLE; the compositor-proxy backend
\* then issues exactly one show call and the direct-layer backend, which has no
\* show operation, none; a return that finds the state VISIBLE already issues
\* no show call.
C6_ShowOnceOnFirstFrame ==
    [][\A t \in Threads :
        FrameReturned(t) =>
            /\ res'[t].seen = VISIBLE_ON_NEXT_FRAME =>
                  /\ mRequestedState' = VISIBLE
                  /\ showCalls' = showCalls + (IF proxy THEN 1 ELSE 0)
            /\ res'[t].seen = VISIBLE => showCalls' = showCalls]_vars

\* a proxy-backend return has just turned VISIBLE_ON_NEXT_FRAME into VISIBLE with
\* the one show call of the run
C6_Witness ==
    \E t \in Threads :
        /\ pc[t] = "returned"
        /\ res[t].op = "returnTargetBuffer"
        /\ res[t].rc = "OK"
        /\ res[t].seen = VISIBLE_ON_NEXT_FRAME
        /\ proxy
        /\ mRequestedState = VISIBLE
        /\ showCalls = 1

\* C7: a return of a descriptor that was issued before, made while nothing is
\* outstanding (a double return), fails with BUFFER_NOT_AVAILABLE.
C7_DoubleReturnRefused ==
    [][\A t \in Threads :
        (/\ Returns(t, "returnTargetBuffer")
         /\ res'[t].valid
         /\ res'[t].id \in everIssued \cap OwnIds
         /\ Outstanding = 0) => res'[t].rc = "BUFFER_NOT_AVAILABLE"]_vars

\* C8: the outstanding buffer returned after forceShutdown yields
\* OWNERSHIP_LOST, clears the frame-busy flag and presents nothing.
C8_ReturnAcrossShutdown ==
    [][\A t \in Threads :
        (/\ Returns(t, "returnTargetBuffer")
         /\ res'[t].valid
         /\ MadeAfterShutdown(t)
         /\ res'[t].id \in OwnIds
         /\ outst[res'[t].id] > 0) =>
            /\ res'[t].rc = "OWNERSHIP_LOST"
            /\ ~res'[t].presented
            /\ ~mFrameBusy']_vars

\* C9: the outstanding buffer, when returned, is presented only if the state
\* the call acts on is VISIBLE, possibly just advanced from
\* VISIBLE_ON_NEXT_FRAME; returned while NOT_VISIBLE the call succeeds, presents
\* nothing and leaves the state alone.
C9_PresentOnlyWhenVisible ==
    [][\A t \in Threads :
        (/\ Returns(t, "returnTargetBuffer")
         /\ res'[t].rc \in Accepted
         /\ res'[t].id \in OwnIds
         /\ outst[res'[t].id] > 0) =>
            /\ res'[t].presented => res'[t].seen \in {VISIBLE, VISIBLE_ON_NEXT_FRAME}
            /\ res'[t].seen = NOT_VISIBLE =>
                  /\ res'[t].rc = "OK"
                  /\ ~res'[t].presented
                  /\ mRequestedState' = mRequestedState]_vars

\* C10: while the object is not DEAD, setDisplayState with a value that is no
\* EvsDisplayState yields INVALID_ARG, leaves the state as it was and issues no
\* show or hide call.
C10_UnknownStateRejected ==
    [][\A t \in Threads :
        (/\ Returns(t, "setDisplayState")
         /\ res'[t].id \notin ValidStates
         /\ mRequestedState # DEAD) =>
            /\ res'[t].rc = "INVALID_ARG"
            /\ mRequestedState' = mRequestedState
            /\ showCalls' = showCalls
            /\ hideCalls' = hideCalls]_vars

\* an unknown state value has just been refused while the display was VISIBLE
C10_Witness ==
    \E t \in Threads :
        /\ pc[t] = "returned"
        /\ res[t].op = "setDisplayState"
        /\ res[t].id \notin ValidStates
        /\ res[t].rc = "INVALID_ARG"
        /\ mRequestedState = VISIBLE

\* C11: while the object is not DEAD, setDisplayState with any recognized
\* state returns OK and commits that state as the current one, also when it is
\* the state already current; getDisplayState reports the current state, so one
\* that follows the call reports the state requested.
C11_RecognizedStateCommitted ==
    [][\A t \in Threads :
        /\ (/\ Returns(t, "setDisplayState")
            /\ mRequestedState # DEAD
            /\ res'[t].id \in ValidStates) =>
                /\ res'[t].rc = "OK"
                /\ mRequestedState' = res'[t].id
        /\ Returns(t, "getDisplayState") =>
                /\ res'[t].id = mRequestedState
                /\ mRequestedState' = mRequestedState]_vars

\* the only two calls made are a setDisplayState(VISIBLE_ON_NEXT_FRAME) that
\* succeeded and the getDisplayState after it, which reports that state
C11_Witness ==
    /\ ncalls = 2
    /\ \E t, u \in Threads :
        /\ pc[t] = "returned"
        /\ res[t].op = "setDisplayState"
        /\ res[t].rc = "OK"
        /\ res[t].id = VISIBLE_ON_NEXT_FRAME
        /\ pc[u] = "returned"
        /\ res[u].op = "getDisplayState"
        /\ res[u].id = VISIBLE_ON_NEXT_FRAME

\* thread t takes a step of a forceShutdown call
ShutdownStep(t) ==
    /\ <<pc[t], loc[t]>> # <<pc'[t], loc'[t]>>
    /\ \/ loc[t].op = "forceShutdown"
       \/ loc'[t].op = "forceShutdown"
       \/ (pc[t] = "idle" /\ res'[t].op = "forceShutdown")

\* line 229: the step calls display->putLayer(layer)
PutLayerCalled(t) == pc[t] = "fs_put" /\ pc'[t] = "fs_release" /\ loc[t].display

\* line 247: the step calls driver.release(buffer)
ReleaseCalled(t) ==
    /\ pc[t] = "fs_release"
    /\ loc[t].i < ReleaseEnd
    /\ loc'[t].i = loc[t].i + 1
    /\ mBuffers[loc[t].i] # NullHandle

\* C12: forceShutdown is idempotent: when the only two calls made are a
\* forceShutdown and, after it returned, a second one, no step of the second
\* changes the object or its backend, calls putLayer or releases a buffer.
C12_SecondShutdownIsNoOp ==
    [][\A t \in Threads :
        (ShutdownStep(t) /\ shutdownDone /\ ncalls' = 2) =>
            /\ UNCHANGED <<object, backend>>
            /\ ~PutLayerCalled(t)
            /\ ~ReleaseCalled(t)]_vars

PresentCalled(t) == pc[t] = "rt_present" /\ pc'[t] # "rt_present" /\ loc[t].display

\* C14: under every interleaving of forceShutdown with getTargetBuffer and
\* returnTargetBufferForDisplay, a pool buffer that a client call hands to the
\* callback or presents is still allocated at that moment, and once
\* forceShutdown has returned the state stays DEAD.
C14_ShutdownRaceIsSafe ==
    [][\A t \in Threads :
        /\ (/\ Returns(t, "getTargetBuffer")
            /\ res'[t].rc = "BUFFER"
            /\ res'[t].id \in OwnIds) => res'[t].hnd \in live'
        /\ PresentCalled(t) => loc[t].abuffer \in live
        /\ (shutdownDone /\ mRequestedState = DEAD /\ loc[t].op # "none") =>
                mRequestedState' = DEAD]_vars

\* C15: no operation makes an external call (window or GL set-up, buffer
\* allocation, showWindow/hideWindow at the compositor proxy, layer-service
\* calls) while it holds mLock.
C15_NoExternalCallUnderLock == \A t \in Threads : ~res[t].locked

\* positions whose next step reads or writes a member of the object with mLock
\* not held: the test `mDisplay == nullptr` of line 55
UnlockedAccess == {"gd_check"}

\* C16: every read and write of the object's mutable state (display state,
\* frame-busy flag, buffer table, display and layer handles) is made with
\* mLock held: no call ever stands before an access made without it.
C16_EveryAccessUnderLock == \A t \in Threads : pc[t] \notin UnlockedAccess

\* C17: the wait of getDisplay for the display service is bounded: a call that
\* has entered it leaves it again, also when the service never comes up.
C17_GetDisplayTerminates ==
    \A t \in Threads : (pc[t] = "gd_service") ~> (pc[t] # "gd_service")

\* C18: every getTargetBuffer call passes exactly one descriptor to the
\* callback: the empty one on every rejection (object DEAD, GL set-up or
\* allocation failed, frame busy, no display, no slot, no buffer at the slot)
\* and a descriptor with a buffer handle, counted as handed out, otherwise.
C18_CallbackExactlyOnce ==
    [][\A t \in Threads :
        Returns(t, "getTargetBuffer") =>
            /\ res'[t].rc \in {"EMPTY", "BUFFER"}
            /\ res'[t].rc = "EMPTY" =>
                  /\ res'[t].hnd = NullHandle
                  /\ res'[t].id = EmptyDesc.id
                  /\ outst' = outst
            /\ res'[t].rc = "BUFFER" =>
                  /\ res'[t].hnd # NullHandle
                  /\ outst'[res'[t].id] = outst[res'[t].id] + 1
            /\ (pc[t] = "idle" /\ mRequestedState = DEAD) => res'[t].rc = "EMPTY"
            /\ (pc[t] = "idle" /\ proxy /\ mBuffer'.memHandle = NullHandle) =>
                  res'[t].rc = "EMPTY"
            /\ (pc[t] = "idle" /\ proxy /\ mBuffer.memHandle # NullHandle /\ mFrameBusy) =>
                  res'[t].rc = "EMPTY"
            /\ pc[t] \in {"gt_read", "gt_buffer"} => res'[t].rc = "EMPTY"]_vars

\* in the proxy backend one getTargetBuffer was given the buffer and a second
\* one, made while the frame was busy, the empty descriptor
C18_Witness ==
    \E t, u \in Threads :
        /\ proxy
        /\ mFrameBusy
        /\ pc[t] = "returned"
        /\ res[t].op = "getTargetBuffer"
        /\ res[t].rc = "BUFFER"
        /\ res[t].hnd = ProxyHandle
        /\ pc[u] = "returned"
        /\ res[u].op = "getTargetBuffer"
        /\ res[u].rc = "EMPTY"
        /\ ~res[u].locked
        /\ mRequestedState # DEAD

\* initialize stored all DISPLAY_BUFFER_NUM buffers and none has been released
PoolFull == mBuffers = initialize(DISPLAY_BUFFER_NUM)

\* C19: direct-layer backend, full pool, calls made one after the other: an
\* acquire for which the layer service names a pool slot hands out the
\* descriptor whose id is that slot and whose handle is the pool buffer stored
\* there at construction, also when the slot was handed out and returned
\* before; the return of an outstanding descriptor succeeds and leaves the pool
\* as it was.
C19_SlotsServedInOrder ==
    [][\A t \in Threads :
        (~proxy /\ PoolFull /\ pc'[t] # pc[t]) =>
            /\ (pc[t] = "gt_buffer" /\ loc[t].slot \in Slots) =>
                  /\ pc'[t] = "gt_callback"
                  /\ loc'[t].abuffer = mBuffers[loc[t].slot]
            /\ (pc[t] = "gt_callback" /\ loc[t].slot \in Slots) =>
                  /\ res'[t].rc = "BUFFER"
                  /\ res'[t].id = loc[t].slot
                  /\ res'[t].hnd = initialize(DISPLAY_BUFFER_NUM)[loc[t].slot]
                  /\ outst'[loc[t].slot] = outst[loc[t].slot] + 1
            /\ (/\ Returns(t, "returnTargetBuffer")
                /\ res'[t].valid
                /\ res'[t].id \in Slots
                /\ outst[res'[t].id] > 0
                /\ mRequestedState # DEAD) =>
                  /\ res'[t].rc = "OK"
                  /\ outst'[res'[t].id] = outst[res'[t].id] - 1
                  /\ mBuffers' = mBuffers]_vars

\* the seventh call is an acquire about to hand out slot 0 with its original
\* buffer, after slots 0, 1 and 2 were each handed out and returned by the six
\* calls before it
C19_Witness ==
    /\ serial
    /\ ~proxy
    /\ PoolFull
    /\ ncalls = 7
    /\ everIssued = Slots
    /\ \A id \in Slots : outst[id] = 0
    /\ pc["t1"] = "gt_callback"
    /\ loc["t1"].slot = 0
    /\ loc["t1"].abuffer = initialize(DISPLAY_BUFFER_NUM)[0]

\* C20 as stated: setDisplayState(VISIBLE) made while the state is
\* VISIBLE_ON_NEXT_FRAME or VISIBLE leaves the state as it was and issues no
\* show call; made while NOT_VISIBLE it moves the state to VISIBLE.
C20_VisibleRequestIsNoOp ==
    [][\A t \in Threads :
        (Returns(t, "setDisplayState") /\ res'[t].id = VISIBLE) =>
            /\ mRequestedState \in {VISIBLE_ON_NEXT_FRAME, VISIBLE} =>
                  /\ mRequestedState' = mRequestedState
                  /\ showCalls' = showCalls
            /\ mRequestedState = NOT_VISIBLE => mRequestedState' = VISIBLE]_vars

\* C20 as amended: setDisplayState(VISIBLE) made in any state but DEAD returns
\* OK and leaves the state VISIBLE, from NOT_VISIBLE, VISIBLE_ON_NEXT_FRAME and
\* VISIBLE alike; each such call issues one show call in the compositor-proxy
\* backend, also when the state is VISIBLE already, and none in the
\* direct-layer backend; it issues no hide call.
C20_VisibleRequestAlwaysShows ==
    [][\A t \in Threads :
        (/\ Returns(t, "setDisplayState")
         /\ res'[t].id = VISIBLE
         /\ mRequestedState # DEAD) =>
            /\ res'[t].rc = "OK"
            /\ mRequestedState' = VISIBLE
            /\ showCalls' = showCalls + (IF proxy THEN 1 ELSE 0)
            /\ hideCalls' = hideCalls]_vars

\* the only two calls made are two setDisplayState(VISIBLE) to the proxy
\* backend, and the second, made while VISIBLE, issued the second show call
C20_Witness ==
    /\ proxy
    /\ ncalls = 2
    /\ showCalls = 2
    /\ mRequestedState = VISIBLE
    /\ \E t \in Threads :
        /\ pc[t] = "returned"
        /\ res[t].op = "setDisplayState"
        /\ res[t].id = VISIBLE
        /\ res[t].rc = "OK"

\* ------------------------------------------------------- evs_app, signals
\* the process has ended inside the signal handler
EndedBySignal == app.hpc \in {"exited", "fault"}

\* C21: a terminating signal delivered at any point after the display was
\* opened makes the handler close the display before the process ends: no
\* process ended by a signal leaves an opened display unclosed.
C21_SignalClosesDisplay ==
    (EndedBySignal /\ app.pDisplay) => app.closed

\* ------------------------------------------------------- getDisplayState
\* C22: getDisplayState returns the state the object holds at the moment of
\* the call, whatever it is, changes no field of the object and makes no call
\* into the backend (no show, hide, GL, layer or allocator call).
C22_GetterReturnsStateVerbatim ==
    [][\A t \in Threads :
        Returns(t, "getDisplayState") =>
            /\ res'[t].id = mRequestedState
            /\ res'[t].rc = "OK"
            /\ ~res'[t].locked
            /\ UNCHANGED <<object, backend>>]_vars

\* the getter has answered VISIBLE_ON_NEXT_FRAME, the state in which a
\* translated answer would differ from the stored one
C22_Witness ==
    \E t \in Threads :
        /\ pc[t] = "returned"
        /\ res[t].op = "getDisplayState"
        /\ res[t].id = VISIBLE_ON_NEXT_FRAME
        /\ mRequestedState = VISIBLE_ON_NEXT_FRAME

\* ------------------------------------------ getTargetBuffer, pool lookup
\* C23: whatever slot number the layer service reports, the direct-layer
\* acquire path indexes the pool only with a slot in [0, pool size): a thread
\* that stands at the lookup of mBuffers[slot] holds a slot of the pool, and
\* a slot outside the pool has been answered with a rejection before.
C23_SlotWithinPool ==
    \A t \in Threads :
        pc[t] = "gt_buffer" => loc[t].slot \in Slots

\* ------------------------------------------- getTargetBuffer, lazy set-up
\* thread t's getTargetBuffer runs the lazy initialisation in this step: the
\* compositor-proxy object is not DEAD and holds no buffer yet
LazyAcquire(t) ==
    /\ Returns(t, "getTargetBuffer")
    /\ proxy
    /\ mRequestedState # DEAD
    /\ mBuffer.memHandle = NullHandle

\* C24: in the compositor-proxy backend, a first acquire whose GL
\* initialisation or buffer allocation fails is answered with the empty
\* descriptor; the object retains no handle, frame-busy is not set, the display
\* state is unchanged and no buffer is live; the GL wrapper is shut down when
\* it was the allocation that failed; and the next acquire goes through the
\* whole initialisation again (a successful one initialises and allocates).
C24_FailedLazyInitLeavesNothing ==
    [][\A t \in Threads :
        LazyAcquire(t) =>
            IF res'[t].rc = "EMPTY"
            THEN /\ res'[t].id = EmptyDesc.id
                 /\ res'[t].hnd = NullHandle
                 /\ mBuffer'.memHandle = NullHandle
                 /\ ~mFrameBusy'
                 /\ mRequestedState' = mRequestedState
                 /\ ~glUp'
                 /\ live' = live
                 /\ outst' = outst
                 /\ res'[t].lazy \in {<<"initialize">>,
                                     <<"initialize", "allocate", "shutdown">>}
            ELSE /\ res'[t].rc = "BUFFER"
                 /\ res'[t].lazy = <<"initialize", "allocate">>
                 /\ mBuffer'.memHandle = res'[t].hnd
                 /\ res'[t].hnd # NullHandle]_vars

\* an acquire that failed in the allocation, with the GL wrapper shut down
\* again, was followed by an acquire that initialised anew and got the buffer
C24_Witness ==
    /\ proxy
    /\ glUp
    /\ \E t, u \in Threads :
        /\ pc[t] = "returned"
        /\ res[t].op = "getTargetBuffer"
        /\ res[t].rc = "EMPTY"
        /\ res[t].lazy = <<"initialize", "allocate", "shutdown">>
        /\ pc[u] = "returned"
        /\ res[u].rc = "BUFFER"
        /\ res[u].lazy = <<"initialize", "allocate">>
        /\ mBuffer.memHandle = res[u].hnd

\* -------------------------------- returnTargetBufferForDisplay, GL failure
\* C25: in the compositor-proxy backend, a return whose texture update fails
\* answers UNDERLYING_SERVICE_ERROR with the frame no longer outstanding, the
\* buffer still held and nothing presented, so that an acquire made in that
\* state is given the buffer; a display that was VISIBLE_ON_NEXT_FRAME has
\* already been advanced to VISIBLE, with its show call, when the error is
\* returned.
C25_TextureFailureFreesFrame ==
    [][\A t \in Threads :
        /\ (Returns(t, "returnTargetBuffer") /\ proxy
            /\ res'[t].rc = "UNDERLYING_SERVICE_ERROR") =>
                /\ mFrameBusy /\ ~mFrameBusy'
                /\ ~res'[t].presented
                /\ mBuffer' = mBuffer /\ mBuffer.memHandle # NullHandle
                /\ mRequestedState' = VISIBLE
                /\ res'[t].seen \in {VISIBLE_ON_NEXT_FRAME, VISIBLE}
                /\ showCalls' = showCalls +
                       (IF res'[t].seen = VISIBLE_ON_NEXT_FRAME THEN 1 ELSE 0)
        /\ (Returns(t, "getTargetBuffer") /\ proxy /\ ~mFrameBusy
            /\ mBuffer.memHandle # NullHandle /\ mRequestedState # DEAD) =>
                /\ res'[t].rc = "BUFFER"
                /\ res'[t].hnd = mBuffer.memHandle
                /\ mFrameBusy']_vars

\* a return made while VISIBLE_ON_NEXT_FRAME failed in the texture update: the
\* display is VISIBLE, shown once, and the frame is free for the next acquire
C25_Witness ==
    /\ proxy
    /\ mRequestedState = VISIBLE
    /\ ~mFrameBusy
    /\ mBuffer.memHandle # NullHandle
    /\ showCalls = 1
    /\ \E t \in Threads :
        /\ pc[t] = "returned"
        /\ res[t].rc = "UNDERLYING_SERVICE_ERROR"
        /\ res[t].seen = VISIBLE_ON_NEXT_FRAME

\* ------------------------------------------- setDisplayState, forwarding
\* C26: a setDisplayState request that passes the DEAD and range tests
\* forwards exactly one hideWindow to the compositor proxy when it asks for
\* NOT_VISIBLE, exactly one showWindow when it asks for VISIBLE, and nothing
\* for any other recognized state; without a proxy (direct-layer
\* configuration) it issues neither; a request that is refused forwards nothing.
C26_ForwardsOneShowOrHide ==
    [][\A t \in Threads :
        Returns(t, "setDisplayState") =>
            LET asked == res'[t].id
                forwards == proxy /\ res'[t].rc = "OK"
            IN  /\ hideCalls' = hideCalls +
                       (IF forwards /\ asked = NOT_VISIBLE THEN 1 ELSE 0)
                /\ showCalls' = showCalls +
                       (IF forwards /\ asked = VISIBLE THEN 1 ELSE 0)
                /\ res'[t].rc = "OK" <=>
                       (mRequestedState # DEAD /\ asked \in ValidStates)]_vars

\* three requests were made to the proxy backend, for NOT_VISIBLE, VISIBLE and
\* last VISIBLE_ON_NEXT_FRAME: one hide and one show call were forwarded
C26_Witness ==
    /\ proxy
    /\ ncalls = 3
    /\ hideCalls = 1
    /\ showCalls = 1
    /\ mRequestedState = VISIBLE_ON_NEXT_FRAME
    /\ \E t \in Threads :
        /\ pc[t] = "returned"
        /\ res[t].op = "setDisplayState"
        /\ res[t].id = VISIBLE_ON_NEXT_FRAME
        /\ res[t].rc = "OK"

\* ------------------------------- returnTargetBufferForDisplay, refusals
\* the results with which a return is refused
Refusals == {"INVALID_ARG", "BUFFER_NOT_AVAILABLE"}

\* thread t's returnTargetBufferForDisplay takes a step that lies before its
\* last test (line 500, line 558), or the step in which it is refused
BeforeAcceptance(t) ==
    \/ Returns(t, "returnTargetBuffer") /\ res'[t].rc \in Refusals
    \/ /\ loc[t].op = "returnTargetBuffer"
       /\ pc[t] \in {"gd_check", "gd_service", "gd_commit", "rt_read"}
       /\ pc'[t] # pc[t]

\* C27: a return is refused with INVALID_ARG when its handle is null, when its
\* id is not the proxy buffer's, or when its id is outside the pool, and with
\* BUFFER_NOT_AVAILABLE when the proxy frame is not outstanding; no step of a
\* refused return changes the display state, the frame-busy flag or the buffer
\* table (nor the proxy buffer), and none issues a show, hide or present call.
C27_RefusedReturnChangesNothing ==
    [][\A t \in Threads :
        /\ BeforeAcceptance(t) =>
              /\ UNCHANGED <<mRequestedState, mFrameBusy, mBuffer, mBuffers>>
              /\ UNCHANGED <<showCalls, hideCalls, glUp, live>>
              /\ pc'[t] = "returned" => ~res'[t].presented
        /\ Returns(t, "returnTargetBuffer") =>
              LET r == res'[t]
              IN  /\ ~r.valid => r.rc = "INVALID_ARG"
                  /\ (proxy /\ r.id # mBuffer.bufferId) => r.rc = "INVALID_ARG"
                  /\ (~proxy /\ r.id >= DISPLAY_BUFFER_NUM) => r.rc = "INVALID_ARG"
                  /\ (proxy /\ r.valid /\ r.id = mBuffer.bufferId /\ ~mFrameBusy) =>
                         r.rc = "BUFFER_NOT_AVAILABLE"]_vars

\* a return made while VISIBLE_ON_NEXT_FRAME with the right id but no frame
\* outstanding was refused: the state did not advance and nothing was shown
C27_Witness ==
    /\ proxy
    /\ mRequestedState = VISIBLE_ON_NEXT_FRAME
    /\ showCalls = 0
    /\ ~mFrameBusy
    /\ \E t \in Threads :
        /\ pc[t] = "returned"
        /\ res[t].op = "returnTargetBuffer"
        /\ res[t].rc = "BUFFER_NOT_AVAILABLE"

\* ------------------------------------------------- pool construction
\* the handles of the direct-layer pool, and those the pool table holds
PoolHandles == 1..DISPLAY_BUFFER_NUM

StoredHandles == {mBuffers[i] : i \in Slots} \ {NullHandle}

\* handle h was obtained from the allocator
Obtained(h) == h \in live \/ released[h] # <<>>

\* C28: of the buffers initialize obtains from the allocator, none is ever
\* released twice; one whose reserved-region lookup failed was released by
\* initialize itself and is never in the pool table; once the constructor is
\* over, every buffer not yet released is in the pool table, where forceShutdown
\* finds it; the table is filled from slot 0 without gaps, also when
\* initialize stopped early; and when a forceShutdown has returned every
\* buffer obtained has been released exactly once.
C28_PoolBuffersReleasedOnce ==
    ~proxy =>
        /\ \A h \in PoolHandles :
            /\ Len(released[h]) <= 1
            /\ h \in live => released[h] = <<>>
            /\ released[h] = <<"initialize">> => h \notin StoredHandles
            /\ (Constructed /\ h \in live) => h \in StoredHandles
        /\ (Constructed /\ released = [h \in Handles |-> <<>>]) =>
               \E stored \in 0..DISPLAY_BUFFER_NUM : mBuffers = initialize(stored)
        /\ shutdownDone =>
               \A h \in PoolHandles : Obtained(h) => Len(released[h]) = 1

\* initialize stored one buffer and stopped at the second, whose reserved-region
\* lookup failed; forceShutdown has returned: the first buffer was released by
\* forceShutdown, the second by initialize, the third was never allocated
C28_Witness ==
    /\ ~proxy
    /\ shutdownDone
    /\ released = [h \in Handles |->
                      IF h = 1 THEN <<"forceShutdown">>
                      ELSE IF h = 2 THEN <<"initialize">> ELSE <<>>]

\* ----------------------------------------------------- ISPWrapper, AWB
\* a manual white-balance mode: a mode of the list that is neither AUTO nor OFF
ManualModes ==
    (0..(WBListSize - 1)) \ {ANDROID_CONTROL_AWB_MODE_AUTO, ANDROID_CONTROL_AWB_MODE_OFF}

\* the step hands the mode command of the call in progress to the driver
ModeCommandIssued ==
    /\ Len(isp'.sent) = Len(isp.sent) + 1
    /\ isp'.sent[Len(isp'.sent)].value = g_strWBList(isp.mode)

\* C29: when processAWB switches from AUTO to a manual mode, the mode command
\* reaches the driver only after the AWB-disable command was issued and
\* succeeded (so a failed disable is never followed by the mode command); and
\* m_awb_mode changes only in a call that returns 0, to the mode asked for,
\* with at least one command issued and every issued command successful.
C29_DisableBeforeManualMode ==
    [][/\ (/\ ModeCommandIssued
           /\ isp.m_awb_mode = ANDROID_CONTROL_AWB_MODE_AUTO
           /\ isp.mode \in ManualModes) =>
               isp.sent = <<[value |-> STR_AWB_DISABLE, ok |-> TRUE]>>
       /\ (isp.pc = "awb_disable" /\ isp'.rc = "BAD_VALUE") =>
               /\ isp'.pc = "idle"
               /\ \A k \in DOMAIN isp'.sent : isp'.sent[k].value = STR_AWB_DISABLE
       /\ isp'.m_awb_mode # isp.m_awb_mode =>
               /\ isp'.m_awb_mode = isp.mode
               /\ isp'.rc = "OK"
               /\ isp'.sent # <<>>
               /\ \A k \in DOMAIN isp'.sent : isp'.sent[k].ok]_vars

\* a switch from AUTO to the manual mode 5 went through: the disable command,
\* then the mode command, both successful, and the mode recorded
C29_Witness ==
    /\ isp.pc = "idle"
    /\ isp.rc = "OK"
    /\ isp.m_awb_mode = 5
    /\ isp.sent = <<[value |-> STR_AWB_DISABLE, ok |-> TRUE],
                    [value |-> g_strWBList(5), ok |-> TRUE]>>

\* ------------------------------------------------------- DEAD and buffers
\* C30: whenever the display state is DEAD the instance holds no graphics
\* buffer (no proxy buffer, no pool entry, nothing allocated and unreleased)
\* and its backend is torn down (GL wrapper shut down, no layer held); no
\* client setDisplayState request leads to DEAD with buffers still allocated.
C30_DeadHoldsNothing ==
    mRequestedState = DEAD =>
        /\ mBuffer.memHandle = NullHandle
        /\ \A i \in Slots : mBuffers[i] = NullHandle
        /\ live = {}
        /\ ~glUp
        /\ layersHeld = {}

\* ------------------------------------------------- the advance, atomicity
\* C31: the advance to VISIBLE made by returnTargetBufferForDisplay is an
\* atomic check-and-set: a return changes the display state only from
\* VISIBLE_ON_NEXT_FRAME, as it is at the moment of the write, to VISIBLE, so
\* a state set by a setDisplayState that completed while the return was in
\* flight is never overwritten.
C31_AdvanceIsCheckAndSet ==
    [][\A t \in Threads :
        (Returns(t, "returnTargetBuffer") /\ mRequestedState' # mRequestedState) =>
            /\ mRequestedState = VISIBLE_ON_NEXT_FRAME
            /\ mRequestedState' = VISIBLE]_vars

\* ------------------------------------------------------ layers, getDisplay
\* C32: in the direct-layer backend, under any interleaving of concurrent
\* callers of getDisplay, the instance obtains at most one layer from the
\* display service before a putLayer: it never holds two layers at a time, so
\* no layer it acquired is overwritten in mLayer and lost.
C32_AtMostOneLayer == Cardinality(layersHeld) <= 1

\* ---------------------------------------------------- layers, putLayer
\* no call is in progress on any thread
Quiescent == \A t \in Threads : pc[t] \in {"idle", "returned"}

\* C33: in the direct-layer backend putLayer is only ever called with a layer
\* the instance holds at that moment (so each layer obtained is given back at
\* most once), and once forceShutdown has returned and every call in flight
\* has finished the instance holds no layer (so each is given back).
C33_LayersPutBackOnce ==
    [][/\ \A t \in Threads : PutLayerCalled(t) => loc[t].layer \in layersHeld
       /\ (shutdownDone' /\ Quiescent') => layersHeld' = {}]_vars

\* ----------------------------------------- evs_app, the state controller
\* C34: the signal handler never uses the state controller before it has
\* been constructed: whenever the handler stands at a call made through
\* pStateController (lines 58 and 59), pStateController has been assigned.
C34_ControllerAssignedBeforeUse ==
    app.hpc \in {"post", "terminate"} => app.pStateController

\* ------------------------------------------------------ ISPWrapper, init
\* the positions inside the control-enumeration loop of init
InitLoop == {"init_query", "init_answer"}

\* C35: init terminates for every finite list of controls the device
\* reports, lists with disabled controls included: a call that has entered the
\* enumeration loop leaves it, with the viv control id found or with NO_INIT.
C35_InitTerminates ==
    (isp.pc \in InitLoop) ~> (isp.pc = "idle" /\ isp.rc \in {"OK", "NO_INIT"})

\* ---------------------------------------------- ISPWrapper, descriptors
\* C36: the wrapper holds at most one open device descriptor: over any
\* sequence of init calls, also after an init that opened the device and did
\* not find the control, no descriptor is opened while an earlier one is
\* still open.
C36_AtMostOneDescriptor == Cardinality(isp.fds) <= 1
====
